---------------------------- MODULE Spec2Model ----------------------------
(***************************************************************************)
(* Ingestion and archival pipeline of whatsapp-server-test:                *)
(* live-message handler, history-sync handler, the chats/messages store    *)
(* and the S3 archival uploader.                                           *)
(*                                                                         *)
(* Text values (names, contents, filenames, keys) are sequences of string  *)
(* tokens: "" is <<>> and Go's string concatenation is \o.  Optional       *)
(* (pointer) fields are sequences of length 0 (nil) or 1 (set).            *)
(***************************************************************************)
EXTENDS Integers, Sequences, FiniteSets, TLC

\* ------------------------------------------------------------------ bounds
\* Last wall-clock instant (in clock ticks) the model lets time.Now() reach.
MaxClock == 2
\* Clock ticks per wall-clock second (Format has one-second resolution).
TicksPerSecond == 2
\* Number of collaborator failures (store, S3, download) injected per run.
MaxFaults == 1

\* The concurrently dispatched live-message handler invocations.
Handlers == {1, 2}

\* ------------------------------------------------------------------ values
Nil == <<>>
Some(x) == <<x>>
EmptyStr == <<>>

\* types.JID and its String() form "<user>@<server>"
JID(user, server) == [User |-> user, Server |-> server]
JIDString(jid) == jid.User \o <<"@">> \o jid.Server

ContactJID == JID(<<"c1">>, <<"s.whatsapp.net">>)
GroupJID == JID(<<"g1">>, <<"g.us">>)
ChatJIDs == {ContactJID, GroupJID}

\* client.Store.ID.User, the account's own user id
OwnUser == <<"me">>

\* time.Now().Format("20060102_150405"): resolution of one second
Format(t) == <<ToString(t \div TicksPerSecond)>>

\* ------------------------------------------------- message payloads (waE2E)
\* A media sub-message: the fields extractMediaInfo reads.
Media(url, key, sha, enc, len, fname) ==
    [URL |-> url, MediaKey |-> key, FileSHA256 |-> sha, FileEncSHA256 |-> enc,
     FileLength |-> len, FileName |-> fname]

FullMedia == Media(<<"https://mmg.whatsapp.net/v/a.enc">>, <<1>>, <<2>>, <<3>>, 4, EmptyStr)
PartMedia == Media(EmptyStr, <<1>>, <<2>>, <<3>>, 4, EmptyStr)
NamedDoc == Media(<<"https://mmg.whatsapp.net/v/d.enc">>, <<1>>, <<2>>, <<3>>, 4, <<"report.pdf">>)

\* waProto.Message: Conversation, ExtendedTextMessage and the four media variants.
Payload(conv, ext, img, vid, aud, doc) ==
    [Conversation |-> conv, ExtendedTextMessage |-> ext, ImageMessage |-> img,
     VideoMessage |-> vid, AudioMessage |-> aud, DocumentMessage |-> doc]

PNone == Payload(EmptyStr, Nil, Nil, Nil, Nil, Nil)
PHello == Payload(<<"hello">>, Nil, Nil, Nil, Nil, Nil)
PBye == Payload(<<"bye">>, Nil, Nil, Nil, Nil, Nil)
PExt == Payload(EmptyStr, Some([Text |-> <<"hi">>]), Nil, Nil, Nil, Nil)
PImage == Payload(EmptyStr, Nil, Some(FullMedia), Nil, Nil, Nil)
PImageText == Payload(<<"hello">>, Nil, Some(FullMedia), Nil, Nil, Nil)
PVideo == Payload(EmptyStr, Nil, Nil, Some(FullMedia), Nil, Nil)
PAudio == Payload(EmptyStr, Nil, Nil, Nil, Some(FullMedia), Nil)
PAudioPart == Payload(EmptyStr, Nil, Nil, Nil, Some(PartMedia), Nil)
PDoc == Payload(EmptyStr, Nil, Nil, Nil, Nil, Some(NamedDoc))
PDocNoName == Payload(EmptyStr, Nil, Nil, Nil, Nil, Some(FullMedia))

\* ---------------------------------------------------------- Content Extractor
NoMedia ==
    [mediaType |-> "", filename |-> EmptyStr, url |-> EmptyStr, mediaKey |-> <<>>,
     fileSHA256 |-> <<>>, fileEncSHA256 |-> <<>>, fileLength |-> 0]

MediaResult(type, fname, m) ==
    [mediaType |-> type, filename |-> fname, url |-> m.URL, mediaKey |-> m.MediaKey,
     fileSHA256 |-> m.FileSHA256, fileEncSHA256 |-> m.FileEncSHA256,
     fileLength |-> m.FileLength]

\* Mutant of extractMediaInfo: the video variant is inspected before the image.
extractMediaInfo_VideoFirst(msg, t) ==
    IF msg = Nil THEN NoMedia
    ELSE LET p == msg[1] IN
         IF p.VideoMessage # Nil
           THEN MediaResult("video", <<"video_">> \o Format(t) \o <<".mp4">>, p.VideoMessage[1])
         ELSE IF p.ImageMessage # Nil
           THEN MediaResult("image", <<"image_">> \o Format(t) \o <<".jpg">>, p.ImageMessage[1])
         ELSE IF p.AudioMessage # Nil
           THEN MediaResult("audio", <<"audio_">> \o Format(t) \o <<".ogg">>, p.AudioMessage[1])
         ELSE IF p.DocumentMessage # Nil
           THEN LET doc == p.DocumentMessage[1]
                    fn == IF doc.FileName = EmptyStr
                            THEN <<"document_">> \o Format(t)
                            ELSE doc.FileName
                IN MediaResult("document", fn, doc)
         ELSE NoMedia

\* extractMediaInfo(msg): msg is Nil or Some(payload); t is time.Now()
extractMediaInfo(msg, t) ==
    IF msg = Nil THEN NoMedia
    ELSE LET p == msg[1] IN
         IF p.ImageMessage # Nil
           THEN MediaResult("image", <<"image_">> \o Format(t) \o <<".jpg">>, p.ImageMessage[1])
         ELSE IF p.VideoMessage # Nil
           THEN MediaResult("video", <<"video_">> \o Format(t) \o <<".mp4">>, p.VideoMessage[1])
         ELSE IF p.AudioMessage # Nil
           THEN MediaResult("audio", <<"audio_">> \o Format(t) \o <<".ogg">>, p.AudioMessage[1])
         ELSE IF p.DocumentMessage # Nil
           THEN LET doc == p.DocumentMessage[1]
                    fn == IF doc.FileName = EmptyStr
                            THEN <<"document_">> \o Format(t)
                            ELSE doc.FileName
                IN MediaResult("document", fn, doc)
         ELSE NoMedia

\* extractTextContent(msg)
extractTextContent(msg) ==
    IF msg = Nil THEN EmptyStr
    ELSE LET p == msg[1] IN
         IF p.Conversation # EmptyStr THEN p.Conversation
         ELSE IF p.ExtendedTextMessage # Nil THEN p.ExtendedTextMessage[1].Text
         ELSE EmptyStr

\* extractMessageContent(msg): content plus media info, with the default
\* text filename
extractMessageContent(msg, t) ==
    LET content == extractTextContent(msg)
        mi == extractMediaInfo(msg, t)
        fn == IF mi.filename = EmptyStr /\ content # EmptyStr
                THEN <<"text_">> \o Format(t) \o <<".txt">>
                ELSE mi.filename
    IN [mi EXCEPT !.filename = fn] @@ [content |-> content]

\* ------------------------------------------------------- Persistence Layer
\* Table chats: rows [jid, name, last_message_time], PRIMARY KEY (jid).
ChatRow(jid, name, t) == [jid |-> jid, name |-> name, last_message_time |-> t]

\* Mutant of storeChat: the timestamp only moves forward.
storeChat_KeepNewest(tbl, jid, name, lastMessageTime, fail) ==
    IF fail THEN [chats |-> tbl, err |-> TRUE]
    ELSE [chats |->
            IF \E r \in tbl : r.jid = jid
              THEN {IF r.jid = jid
                      THEN [r EXCEPT !.name = name,
                                     !.last_message_time =
                                         IF lastMessageTime > @ THEN lastMessageTime ELSE @]
                      ELSE r : r \in tbl}
              ELSE tbl \cup {[jid |-> jid, name |-> name, last_message_time |-> lastMessageTime]},
          err |-> FALSE]

\* MessageStore.storeChat: INSERT ... ON CONFLICT (jid) DO UPDATE SET name,
\* last_message_time.  fail: the statement fails (connection, server error).
storeChat(tbl, jid, name, lastMessageTime, fail) ==
    IF fail THEN [chats |-> tbl, err |-> TRUE]
    ELSE [chats |->
            IF \E r \in tbl : r.jid = jid
              THEN {IF r.jid = jid
                      THEN [r EXCEPT !.name = name,
                                     !.last_message_time = lastMessageTime]
                      ELSE r : r \in tbl}
              ELSE tbl \cup {ChatRow(jid, name, lastMessageTime)},
          err |-> FALSE]

\* Table messages: PRIMARY KEY (id, chat_jid), FOREIGN KEY (chat_jid)
\* REFERENCES chats(jid).
MessageRow(id, chatJID, sender, content, timestamp, isFromMe, x) ==
    [id |-> id, chat_jid |-> chatJID, sender |-> sender, content |-> content,
     timestamp |-> timestamp, is_from_me |-> isFromMe, media_type |-> x.mediaType,
     filename |-> x.filename, url |-> x.url, media_key |-> x.mediaKey,
     file_sha256 |-> x.fileSHA256, file_enc_sha256 |-> x.fileEncSHA256,
     file_length |-> x.fileLength]

SameKey(r, row) == r.id = row.id /\ r.chat_jid = row.chat_jid

\* Mutant of UpsertMessage: the SET list leaves the media fields out.
UpsertMessage_KeepMedia(tbl, row) ==
    IF \E r \in tbl : SameKey(r, row)
      THEN {IF SameKey(r, row)
              THEN [r EXCEPT !.sender = row.sender, !.content = row.content,
                             !.timestamp = row.timestamp,
                             !.is_from_me = row.is_from_me]
              ELSE r : r \in tbl}
      ELSE tbl \cup {row}

\* The INSERT ... ON CONFLICT (id, chat_jid) DO UPDATE statement of storeMessage.
UpsertMessage(tbl, row) ==
    IF \E r \in tbl : SameKey(r, row)
      THEN {IF SameKey(r, row)
              THEN [r EXCEPT !.sender = row.sender, !.content = row.content,
                             !.timestamp = row.timestamp,
                             !.is_from_me = row.is_from_me,
                             !.media_type = row.media_type,
                             !.filename = row.filename, !.url = row.url,
                             !.media_key = row.media_key,
                             !.file_sha256 = row.file_sha256,
                             !.file_enc_sha256 = row.file_enc_sha256,
                             !.file_length = row.file_length]
              ELSE r : r \in tbl}
      ELSE tbl \cup {row}

\* Mutant of NothingToStore: the guard is missing.
NothingToStore_Never(row) == FALSE

\* The guard of storeMessage: only store if there's actual content or media.
NothingToStore(row) == row.content = EmptyStr /\ row.media_type = ""

\* Mutant of storeMessage: the table has no foreign key.
storeMessage_NoForeignKey(chatTbl, tbl, row, fail) ==
    IF NothingToStore(row)
      THEN [messages |-> tbl, err |-> FALSE, executed |-> FALSE]
    ELSE IF fail
      THEN [messages |-> tbl, err |-> TRUE, executed |-> TRUE]
    ELSE [messages |-> UpsertMessage(tbl, row), err |-> FALSE, executed |-> TRUE]

\* MessageStore.storeMessage.  executed: the statement was sent to the store.
\* The statement fails when the store fails or the chat row it references
\* does not exist.
storeMessage(chatTbl, tbl, row, fail) ==
    IF NothingToStore(row)
      THEN [messages |-> tbl, err |-> FALSE, executed |-> FALSE]
    ELSE IF fail \/ ~(\E c \in chatTbl : c.jid = row.chat_jid)
      THEN [messages |-> tbl, err |-> TRUE, executed |-> TRUE]
    ELSE [messages |-> UpsertMessage(tbl, row), err |-> FALSE, executed |-> TRUE]

\* ---------------------------------------------------- Chat Identity Resolver
\* What the directory (contacts) or the group-info service may answer for a
\* chat: no usable name, or a name.
LookupNames(jid) == {EmptyStr, <<"dir:">> \o jid.User}

\* Inline conversation metadata of a history-sync conversation.
ConvMeta(displayName, convName) == [DisplayName |-> displayName, Name |-> convName]

\* Mutant of getChatName: the inline Name is taken before the DisplayName.
getChatName_NameFirst(chatTbl, jid, chatJID, conversation, sender, qfail, lookup) ==
    LET rows == {r \in chatTbl : r.jid = chatJID}
        found == ~qfail /\ rows # {}
        existingName == IF found THEN (CHOOSE r \in rows : TRUE).name ELSE EmptyStr
    IN IF found /\ existingName # EmptyStr THEN existingName
       ELSE IF jid.Server = <<"g.us">>
         THEN LET displayName == IF conversation # Nil THEN conversation[1].DisplayName ELSE Nil
                  convName == IF conversation # Nil THEN conversation[1].Name ELSE Nil
                  inline == IF convName # Nil /\ convName[1] # EmptyStr THEN convName[1]
                            ELSE IF displayName # Nil /\ displayName[1] # EmptyStr THEN displayName[1]
                            ELSE EmptyStr
              IN IF inline # EmptyStr THEN inline
                 ELSE IF lookup # EmptyStr THEN lookup
                 ELSE <<"Group ">> \o jid.User
       ELSE IF lookup # EmptyStr THEN lookup
       ELSE IF sender # EmptyStr THEN sender
       ELSE jid.User

\* getChatName.  qfail: the SELECT fails; conversation: Nil or Some(metadata);
\* lookup: the answer of client.GetGroupInfo / Contacts.GetContact.
getChatName(chatTbl, jid, chatJID, conversation, sender, qfail, lookup) ==
    LET rows == {r \in chatTbl : r.jid = chatJID}
        found == ~qfail /\ rows # {}
        existingName == IF found THEN (CHOOSE r \in rows : TRUE).name ELSE EmptyStr
    IN IF found /\ existingName # EmptyStr THEN existingName
       ELSE IF jid.Server = <<"g.us">>
         THEN LET displayName == IF conversation # Nil THEN conversation[1].DisplayName ELSE Nil
                  convName == IF conversation # Nil THEN conversation[1].Name ELSE Nil
                  inline == IF displayName # Nil /\ displayName[1] # EmptyStr THEN displayName[1]
                            ELSE IF convName # Nil /\ convName[1] # EmptyStr THEN convName[1]
                            ELSE EmptyStr
              IN IF inline # EmptyStr THEN inline
                 ELSE IF lookup # EmptyStr THEN lookup
                 ELSE <<"Group ">> \o jid.User
       ELSE IF lookup # EmptyStr THEN lookup
       ELSE IF sender # EmptyStr THEN sender
       ELSE jid.User

\* ---------------------------------------------------------- Archival Uploader
\* os.Getenv("AWS_S3_BUCKET_NAME")
BucketName == <<"bucket">>

\* fmt.Sprintf("input/%s/%s", chatJID, filename)
ObjectKey(chatJID, filename) == <<"input/">> \o chatJID \o <<"/">> \o filename

\* fmt.Sprintf("%s/%s", bucketName, objectKey)
FilePath(objectKey) == BucketName \o <<"/">> \o objectKey

\* The object store: a set of [key, body], one object per key.
KeyExists(objs, key) == \E o \in objs : o.key = key
BodyAt(objs, key) == (CHOOSE o \in objs : o.key = key).body

\* Mutant of PutObject: the object is added and none replaced.
PutObject_Add(objs, key, body) == objs \cup {[key |-> key, body |-> body]}

\* s3Client.PutObject: creates the object or replaces the one at the key.
PutObject(objs, key, body) ==
    {o \in objs : o.key # key} \cup {[key |-> key, body |-> body]}

\* The bytes client.Download yields for a media descriptor.
DownloadedBytes(url) == <<"media:">> \o url

\* downloadWhatsAppMedia: the checks before the download, then the download.
\* dfail: client.Download fails.
downloadWhatsAppMedia(x, dfail) ==
    IF x.mediaType = "" THEN [data |-> <<>>, err |-> TRUE]
    ELSE IF x.mediaType # "audio" THEN [data |-> <<>>, err |-> TRUE]
    ELSE IF x.url = EmptyStr \/ Len(x.mediaKey) = 0 \/ Len(x.fileSHA256) = 0
            \/ Len(x.fileEncSHA256) = 0 \/ x.fileLength = 0
      THEN [data |-> <<>>, err |-> TRUE]
    ELSE IF dfail THEN [data |-> <<>>, err |-> TRUE]
    ELSE [data |-> DownloadedBytes(x.url), err |-> FALSE]

\* Mutant of PrepareUpload: the error of the download is dropped.
PrepareUpload_DropDownloadError(x, dfail) ==
    IF x.content = EmptyStr /\ x.mediaType = "" THEN [data |-> <<>>, err |-> TRUE]
    ELSE IF x.mediaType # "" THEN [data |-> downloadWhatsAppMedia(x, dfail).data, err |-> FALSE]
    ELSE [data |-> x.content, err |-> FALSE]

\* uploadMessageToS3 up to the call of uploadToS3: the bytes to upload.
PrepareUpload(x, dfail) ==
    IF x.content = EmptyStr /\ x.mediaType = "" THEN [data |-> <<>>, err |-> TRUE]
    ELSE IF x.mediaType # "" THEN downloadWhatsAppMedia(x, dfail)
    ELSE [data |-> x.content, err |-> FALSE]

\* uploadToS3, the paginated listing: what the loop decides.  outcome is what
\* the listing calls do: "ok" (every page read), "NoSuchBucket", "error" (a
\* page fails otherwise before the key is seen).
ListDecision(objs, key, outcome) ==
    IF outcome = "NoSuchBucket" THEN "returnNoBucket"
    ELSE IF outcome = "error" THEN "put"
    ELSE IF KeyExists(objs, key) THEN "returnExists"
    ELSE "put"

\* What uploadToS3 returns when the listing finds the key: an error.
ExistsIsError == TRUE

\* The error values of the uploader, by what made them: "" is nil.
\* uploadMessageToS3 wraps the error of uploadToS3 or of the download with
\* %v, which keeps its text.
NoError == ""

\* uploadMessageToS3's return for the error cause (or none) of uploadToS3 or
\* of its own checks.
UploadReturn(key, cause) ==
    IF cause # NoError THEN [filePath |-> EmptyStr, err |-> TRUE, cause |-> cause]
    ELSE [filePath |-> FilePath(key), err |-> FALSE, cause |-> NoError]

\* Mutant of uploadToS3Return: the error of the put is returned when there
\* is one.
uploadToS3Return_PutError(putErr, waitErr) ==
    IF putErr # NoError THEN putErr
    ELSE IF waitErr THEN "waiter" ELSE NoError

\* What uploadToS3 returns after the put: err is assigned the waiter's result
\* and returned; the error of the put (putErr) was logged only.
uploadToS3Return(putErr, waitErr) == IF waitErr THEN "waiter" ELSE NoError

\* ------------------------------------------------------------------- events
\* msg.Info.Sender.User of a live message
SenderOf(chat, isFromMe) ==
    IF isFromMe THEN OwnUser
    ELSE IF chat.Server = <<"g.us">> THEN <<"p1">> ELSE chat.User

\* events.Message: Info (ID, Chat, Sender, Timestamp, IsFromMe) and Message
LiveEvent(id, chat, ts, isFromMe, message) ==
    [ID |-> id, Chat |-> chat, Sender |-> SenderOf(chat, isFromMe), Timestamp |-> ts,
     IsFromMe |-> isFromMe, Message |-> message]

\* The messages the client may deliver, each with its own id; any of them may
\* be delivered to any handler invocation, so also twice.
LiveEvents ==
    { LiveEvent("m1", ContactJID, 1, FALSE, Some(PHello)),
      LiveEvent("m2", ContactJID, 2, TRUE, Some(PBye)),
      LiveEvent("m3", ContactJID, 1, FALSE, Some(PAudio)),
      LiveEvent("m4", ContactJID, 2, FALSE, Some(PImage)),
      LiveEvent("m5", GroupJID, 1, FALSE, Some(PImageText)),
      LiveEvent("m6", GroupJID, 2, FALSE, Some(PAudioPart)),
      LiveEvent("m7", GroupJID, 2, TRUE, Some(PHello)),
      LiveEvent("m8", ContactJID, 1, FALSE, Some(PNone)) }

NoEvent == LiveEvent("", ContactJID, 0, FALSE, Nil)
NoContent == NoMedia @@ [content |-> EmptyStr]
NoReturn == [filePath |-> EmptyStr, err |-> FALSE, cause |-> NoError]

\* -------------------------------------------------------------------- state
VARIABLES
    chats,      \* table chats
    messages,   \* table messages
    objects,    \* the bucket's objects
    now,        \* wall clock, in ticks
    faults,     \* collaborator failures injected so far
    pc,         \* per live handler: the step it is at
    msg,        \* per live handler: the events.Message it handles
    ext,        \* per live handler: result of extractMessageContent
    name,       \* per live handler: result of getChatName
    mediaData,  \* per live handler: bytes uploadMessageToS3 uploads
    ret,        \* per live handler: (filePath, err) of uploadMessageToS3
    logs,       \* per live handler: the log lines written, in order
    held,       \* history: per live handler, what its key held when it listed
    after,      \* history: per live handler, the handlers done when it began
    inbox,      \* the live events the client may deliver
    hs,         \* the history-sync handler: step, batch, loop indices, locals
    hsStored,   \* history: message upserts of the history-sync handler that
                \* the store executed without error
    call,       \* store exercised directly: what the last storeMessage call did
    written,    \* history: per message key, the row of the last upsert the
                \* store executed without error
    res,        \* resolver exercised directly: the last getChatName call
    xt,         \* extractor exercised directly: the last extraction
    ogg,        \* analyzer exercised directly: the last AnalyzeOggOpus call
    rng,        \* state of math/rand's process-wide generator
    firstWave   \* history: duration and result of the first
                \* placeholderWaveform call

vars == <<chats, messages, objects, now, faults, pc, msg, ext, name, mediaData, ret,
          logs, held, after, inbox, hs, hsStored, call, written, res, xt, ogg, rng,
          firstWave>>

hsVars == <<hs, hsStored>>
auxVars == <<res, xt, ogg, rng, firstWave>>
liveVars == <<pc, msg, ext, name, mediaData, ret, logs, held, after>>

Has(seq, x) == \E i \in 1..Len(seq) : seq[i] = x

\* An injected failure is possible while the budget lasts.
FailChoices == IF faults < MaxFaults THEN {FALSE, TRUE} ELSE {FALSE}
Charge(fail) == faults' = faults + (IF fail THEN 1 ELSE 0)

Log(h, line) == logs' = [logs EXCEPT ![h] = Append(@, line)]
Goto(h, step) == pc' = [pc EXCEPT ![h] = step]

chatJIDOf(h) == JIDString(msg[h].Chat)
objectKeyOf(h) == ObjectKey(chatJIDOf(h), ext[h].filename)

\* The history-sync handler before a batch is dispatched to it.
NoBatch == [pc |-> "off", batch |-> <<>>, ci |-> 0, mi |-> 0, name |-> EmptyStr,
            syncedCount |-> 0]

\* No storeMessage call made directly yet.
NoCall == [empty |-> FALSE, err |-> FALSE, changed |-> FALSE, conflict |-> FALSE]

\* No getChatName call, no extraction, no analysis made directly; the
\* generator as the runtime leaves it at start.
NoRes == [made |-> FALSE]
NoXt == [made |-> FALSE]
NoOgg == [made |-> FALSE]

AuxIdle ==
    /\ res = NoRes
    /\ xt = NoXt
    /\ ogg = NoOgg
    /\ rng = 0
    /\ firstWave = Nil

InitLive ==
    /\ AuxIdle
    /\ call = NoCall
    /\ written = {}
    /\ inbox = LiveEvents
    /\ hs = NoBatch
    /\ hsStored = 0
    /\ chats = {}
    /\ messages = {}
    /\ objects = {}
    /\ now = 0
    /\ faults = 0
    /\ pc = [h \in Handlers |-> "idle"]
    /\ msg = [h \in Handlers |-> NoEvent]
    /\ ext = [h \in Handlers |-> NoContent]
    /\ name = [h \in Handlers |-> EmptyStr]
    /\ mediaData = [h \in Handlers |-> <<>>]
    /\ ret = [h \in Handlers |-> NoReturn]
    /\ logs = [h \in Handlers |-> <<>>]
    /\ held = [h \in Handlers |-> Nil]
    /\ after = [h \in Handlers |-> {}]

\* time passes
Tick ==
    /\ now < MaxClock
    /\ UNCHANGED <<hsVars, inbox, call, written, auxVars>>
    /\ now' = now + 1
    /\ UNCHANGED <<chats, messages, objects, faults, pc, msg, ext, name, mediaData, ret,
                   logs, held, after>>

\* ------------------------------------------------------------ HandleMessage
\* Mutant of SkipReason: the audio-only check is missing.
SkipReason_NoAudioRule(x) ==
    IF x.content = EmptyStr /\ x.mediaType = "" THEN "No text or media content found"
    ELSE ""

\* The two discard checks at the head of HandleMessage: the log line of the
\* check that returns, or "" when the message is processed.
SkipReason(x) ==
    IF x.content = EmptyStr /\ x.mediaType # "audio" THEN "Ignoring non-audio media type"
    ELSE IF x.content = EmptyStr /\ x.mediaType = "" THEN "No text or media content found"
    ELSE ""

\* Mutant of AfterStoreMessage: the error is logged and the handler goes on.
AfterStoreMessage_GoOn(err) == "upload"

\* Where HandleMessage goes after storeMessage returned err.
AfterStoreMessage(err) == IF err THEN "done" ELSE "upload"

\* The event is dispatched to HandleMessage, which extracts the content and
\* discards or goes on.  Invocations are numbered in the order of
\* their dispatch.
HandleMessage_Extract(h) ==
    /\ pc[h] = "idle"
    /\ \A g \in Handlers : g < h => pc[g] # "idle"
    /\ UNCHANGED <<hsVars, inbox, call, written, auxVars>>
    /\ \E e \in inbox :
         LET x == extractMessageContent(e.Message, now)
             why == SkipReason(x)
         IN /\ msg' = [msg EXCEPT ![h] = e]
            /\ ext' = [ext EXCEPT ![h] = x]
            /\ IF why # ""
                 THEN Log(h, why) /\ Goto(h, "done")
                 ELSE Goto(h, "getChatName") /\ UNCHANGED logs
    /\ after' = [after EXCEPT ![h] = {g \in Handlers : pc[g] = "done"}]
    /\ UNCHANGED <<chats, messages, objects, now, faults, name, mediaData, ret, held>>

HandleMessage_getChatName(h) ==
    /\ pc[h] = "getChatName"
    /\ UNCHANGED <<hsVars, inbox, call, written, auxVars>>
    /\ \E qfail \in FailChoices, lookup \in LookupNames(msg[h].Chat) :
         /\ name' = [name EXCEPT ![h] =
                getChatName(chats, msg[h].Chat, chatJIDOf(h), Nil, msg[h].Sender, qfail, lookup)]
         /\ Charge(qfail)
    /\ Goto(h, "storeChat")
    /\ UNCHANGED <<chats, messages, objects, now, msg, ext, mediaData, ret, logs, held, after>>

\* Mutant of HandleMessage_storeChat: the handler returns when the chat
\* upsert fails.
HandleMessage_storeChat_ReturnOnError(h) ==
    /\ pc[h] = "storeChat"
    /\ UNCHANGED <<hsVars, inbox, call, written, auxVars>>
    /\ \E fail \in FailChoices :
         LET r == storeChat(chats, chatJIDOf(h), name[h], msg[h].Timestamp, fail)
         IN /\ chats' = r.chats
            /\ Charge(fail)
            /\ Log(h, IF r.err THEN "Failed to store chat" ELSE "Updated chat")
            /\ Goto(h, IF r.err THEN "done" ELSE "storeMessage")
    /\ UNCHANGED <<messages, objects, now, msg, ext, name, mediaData, ret, held, after>>

HandleMessage_storeChat(h) ==
    /\ pc[h] = "storeChat"
    /\ UNCHANGED <<hsVars, inbox, call, written, auxVars>>
    /\ \E fail \in FailChoices :
         LET r == storeChat(chats, chatJIDOf(h), name[h], msg[h].Timestamp, fail)
         IN /\ chats' = r.chats
            /\ Charge(fail)
            /\ Log(h, IF r.err THEN "Failed to store chat" ELSE "Updated chat")
    /\ Goto(h, "storeMessage")
    /\ UNCHANGED <<messages, objects, now, msg, ext, name, mediaData, ret, held, after>>

HandleMessage_storeMessage(h) ==
    /\ pc[h] = "storeMessage"
    /\ UNCHANGED <<hsVars, inbox, call, written, auxVars>>
    /\ \E fail \in FailChoices :
         LET row == MessageRow(msg[h].ID, chatJIDOf(h), msg[h].Sender, ext[h].content,
                               msg[h].Timestamp, msg[h].IsFromMe, ext[h])
             r == storeMessage(chats, messages, row, fail)
         IN /\ messages' = r.messages
            /\ Charge(fail)
            /\ Log(h, IF r.err THEN "Failed to store message" ELSE "Stored message")
            /\ Goto(h, AfterStoreMessage(r.err))
    /\ UNCHANGED <<chats, objects, now, msg, ext, name, mediaData, ret, held, after>>

\* HandleMessage after uploadMessageToS3 returned r: log, and return.
Return(h, r, lines) ==
    /\ ret' = [ret EXCEPT ![h] = r]
    /\ logs' = [logs EXCEPT ![h] =
            @ \o lines \o <<IF r.err THEN "Failed to upload message to S3"
                                     ELSE "Uploaded message">>]
    /\ Goto(h, "done")

\* uploadMessageToS3 up to the call of uploadToS3
uploadMessageToS3_Prepare(h) ==
    /\ pc[h] = "upload"
    /\ UNCHANGED <<hsVars, inbox, call, written, auxVars>>
    /\ \E dfail \in FailChoices :
         LET d == PrepareUpload(ext[h], dfail)
         IN /\ Charge(dfail)
            /\ IF d.err
                 THEN Return(h, UploadReturn(objectKeyOf(h),
                                 IF ext[h].content = EmptyStr /\ ext[h].mediaType = ""
                                   THEN "no content or media" ELSE "download"), <<>>)
                      /\ UNCHANGED mediaData
                 ELSE /\ mediaData' = [mediaData EXCEPT ![h] = d.data]
                      /\ Goto(h, "list")
                      /\ UNCHANGED <<ret, logs>>
    /\ UNCHANGED <<chats, messages, objects, now, msg, ext, name, held, after>>

ListOutcomes == IF faults < MaxFaults THEN {"ok", "NoSuchBucket", "error"} ELSE {"ok"}

\* uploadToS3: the listing loop
uploadToS3_List(h) ==
    /\ pc[h] = "list"
    /\ UNCHANGED <<hsVars, inbox, call, written, auxVars>>
    /\ \E outcome \in ListOutcomes :
         LET d == ListDecision(objects, objectKeyOf(h), outcome)
         IN /\ Charge(outcome # "ok")
            /\ IF d = "returnNoBucket"
                 THEN Return(h, UploadReturn(objectKeyOf(h), "NoSuchBucket"),
                             <<"Bucket does not exist">>)
               ELSE IF d = "returnExists"
                 THEN Return(h, UploadReturn(objectKeyOf(h),
                                 IF ExistsIsError THEN "already exists" ELSE NoError),
                             <<"Object already exists. Skipping upload">>)
               ELSE Goto(h, "put") /\ UNCHANGED <<ret, logs>>
    /\ held' = [held EXCEPT ![h] =
            IF KeyExists(objects, objectKeyOf(h))
              THEN Some(BodyAt(objects, objectKeyOf(h))) ELSE Nil]
    /\ UNCHANGED <<chats, messages, objects, now, msg, ext, name, mediaData, after>>

PutOutcomes == IF faults < MaxFaults THEN {"ok", "EntityTooLarge", "error"} ELSE {"ok"}

\* uploadToS3: PutObject; its error is logged and dropped
uploadToS3_Put(h) ==
    /\ pc[h] = "put"
    /\ UNCHANGED <<hsVars, inbox, call, written, auxVars>>
    /\ \E outcome \in PutOutcomes :
         /\ Charge(outcome # "ok")
         /\ objects' = IF outcome = "ok"
                         THEN PutObject(objects, objectKeyOf(h), mediaData[h])
                         ELSE objects
         /\ IF outcome = "ok" THEN UNCHANGED logs
            ELSE Log(h, IF outcome = "EntityTooLarge" THEN "The object is too large"
                                                      ELSE "Couldn't upload file")
    /\ Goto(h, "wait")
    /\ UNCHANGED <<chats, messages, now, msg, ext, name, mediaData, ret, held, after>>

\* The error of the put of handler h at the waiter: the put logs its error
\* as the last line before the wait.
PutErrorOf(h) ==
    LET last == IF logs[h] = <<>> THEN "" ELSE logs[h][Len(logs[h])]
    IN IF last = "The object is too large" THEN "EntityTooLarge"
       ELSE IF last = "Couldn't upload file" THEN "error"
       ELSE NoError

\* uploadToS3: the ObjectExistsWaiter; its error is what uploadToS3 returns
uploadToS3_Wait(h) ==
    /\ pc[h] = "wait"
    /\ UNCHANGED <<hsVars, inbox, call, written, auxVars>>
    /\ \E wfail \in FailChoices :
         LET err == wfail \/ ~KeyExists(objects, objectKeyOf(h))
         IN /\ Charge(wfail)
            /\ Return(h, UploadReturn(objectKeyOf(h), uploadToS3Return(PutErrorOf(h), err)),
                      IF err THEN <<"Failed attempt to wait for object">> ELSE <<>>)
    /\ UNCHANGED <<chats, messages, objects, now, msg, ext, name, mediaData, held, after>>

HandleMessage(h) ==
    \/ HandleMessage_Extract(h)
    \/ HandleMessage_getChatName(h)
    \/ HandleMessage_storeChat(h)
    \/ HandleMessage_storeMessage(h)
    \/ uploadMessageToS3_Prepare(h)
    \/ uploadToS3_List(h)
    \/ uploadToS3_Put(h)
    \/ uploadToS3_Wait(h)

Next == Tick \/ \E h \in Handlers : HandleMessage(h)

Spec == InitLive /\ [][Next]_vars

\* -------------------------------------------------------- HandleHistorySync
\* waWeb.MessageKey and waWeb.WebMessageInfo of a history-sync message
MessageKey(id, fromMe, participant) == [ID |-> id, FromMe |-> fromMe, Participant |-> participant]
WebMessageInfo(key, message, ts) == [Key |-> key, Message |-> message, MessageTimestamp |-> ts]

\* A HistorySyncMsg: Nil, or Some of a wrapper whose Message is Nil or Some(info)
HistoryMsg(key, message, ts) == Some([Message |-> Some(WebMessageInfo(key, message, ts))])
HistoryMsgNoInfo == Some([Message |-> Nil])

TextMsg(id, p, ts) == HistoryMsg(Some(MessageKey(Some(id), Some(FALSE), Nil)), Some(p), ts)

\* waHistorySync.Conversation: ID, the inline names, the messages
Conversation(id, displayName, convName, msgs) ==
    [ID |-> id, DisplayName |-> displayName, Name |-> convName, Messages |-> msgs]

ContactID == JIDString(ContactJID)
GroupID == JIDString(GroupJID)
MalformedID == <<"1:2.x", "@", "s.whatsapp.net">>

\* types.ParseJID on an identifier: "<user>@<server>", a bare server, or an
\* identifier the parser rejects.
ParseJID(s) ==
    IF s = MalformedID THEN [err |-> TRUE, jid |-> JID(EmptyStr, EmptyStr)]
    ELSE IF Len(s) = 3 /\ s[2] = "@" THEN [err |-> FALSE, jid |-> JID(<<s[1]>>, <<s[3]>>)]
    ELSE [err |-> FALSE, jid |-> JID(EmptyStr, s)]

\* Three text messages, oldest first.
ConvAscending ==
    Conversation(Some(ContactID), Nil, Nil,
        << TextMsg("a1", PHello, 1), TextMsg("a2", PBye, 2), TextMsg("a3", PExt, 3) >>)
\* Newest first, the second one sent by the account itself and without text.
ConvDescending ==
    Conversation(Some(ContactID), Nil, Nil,
        << TextMsg("a3", PExt, 3),
           HistoryMsg(Some(MessageKey(Some("a2"), Some(TRUE), Nil)), Some(PAudio), 2),
           TextMsg("a1", PHello, 1) >>)
\* A group with inline names: media, an empty payload, a wrapper without
\* info, a message without timestamp, a message without key or payload.
ConvGroup ==
    Conversation(Some(GroupID), Some(EmptyStr), Some(<<"Team">>),
        << HistoryMsg(Some(MessageKey(Some("b1"), Nil, Some(<<"p1">>))), Some(PImage), 3),
           TextMsg("b2", PNone, 2),
           HistoryMsgNoInfo,
           TextMsg("b3", PDoc, 0),
           HistoryMsg(Nil, Some(PVideo), 2),
           HistoryMsg(Some(MessageKey(Some("b4"), Some(FALSE), Nil)), Nil, 1) >>)
\* The first message is not storable, the later ones are.
ConvEmptyFirst ==
    Conversation(Some(GroupID), Nil, Nil,
        << TextMsg("c1", PNone, 3), TextMsg("c2", PHello, 1), TextMsg("c3", PDocNoName, 2) >>)
ConvNoID == Conversation(Nil, Nil, Nil, << TextMsg("d1", PHello, 1) >>)
ConvMalformed == Conversation(Some(MalformedID), Nil, Nil, << TextMsg("d2", PHello, 1) >>)
ConvNoMessages == Conversation(Some(ContactID), Nil, Nil, << >>)
ConvNilFirst == Conversation(Some(ContactID), Nil, Nil, << Nil, TextMsg("e1", PHello, 1) >>)
ConvZeroFirst ==
    Conversation(Some(GroupID), Nil, Nil, << TextMsg("f1", PHello, 0), TextMsg("f2", PBye, 2) >>)

Conversations ==
    { ConvAscending, ConvDescending, ConvGroup, ConvEmptyFirst, ConvNoID, ConvMalformed,
      ConvNoMessages, ConvNilFirst, ConvZeroFirst }

\* historySync.Data.Conversations: the batches the client may deliver
Batches ==
    { <<ConvAscending, ConvGroup>>, <<ConvDescending, ConvEmptyFirst>>,
      <<ConvAscending, ConvDescending>>, <<ConvNoID, ConvAscending>>,
      <<ConvMalformed, ConvNilFirst>>, <<ConvNoMessages, ConvZeroFirst>>,
      <<ConvGroup>> }

\* Mutant of LatestMsg: the last message of the conversation.
LatestMsg_Last(msgs) == msgs[Len(msgs)]

\* latestMsg := messages[0]
LatestMsg(msgs) == msgs[1]

\* msg == nil || msg.Message == nil
NoInfo(m) == m = Nil \/ m[1].Message = Nil
InfoOf(m) == m[1].Message[1]

\* The text content of a history message (the inline extraction of the loop).
HistoryContent(info) ==
    IF info.Message = Nil THEN EmptyStr
    ELSE LET p == info.Message[1] IN
         IF p.Conversation # EmptyStr THEN p.Conversation
         ELSE IF p.ExtendedTextMessage # Nil THEN p.ExtendedTextMessage[1].Text
         ELSE EmptyStr

\* The sender and isFromMe of a history message.
HistorySender(info, jid) ==
    IF info.Key = Nil THEN [sender |-> jid.User, isFromMe |-> FALSE]
    ELSE LET key == info.Key[1]
             isFromMe == IF key.FromMe # Nil THEN key.FromMe[1] ELSE FALSE
         IN [sender |-> IF ~isFromMe /\ key.Participant # Nil /\ key.Participant[1] # EmptyStr
                          THEN key.Participant[1]
                        ELSE IF isFromMe THEN OwnUser
                        ELSE jid.User,
             isFromMe |-> isFromMe]

HistoryMsgID(info) ==
    IF info.Key # Nil /\ info.Key[1].ID # Nil THEN info.Key[1].ID[1] ELSE ""

\* The row the loop passes to storeMessage for a message, at time t.
HistoryRow(info, jid, chatJID, t) ==
    LET snd == HistorySender(info, jid)
    IN MessageRow(HistoryMsgID(info), chatJID, snd.sender, HistoryContent(info),
                  info.MessageTimestamp, snd.isFromMe, extractMediaInfo(info.Message, t))

\* What the loop does with one message: "skip" or "store".
HistoryStep(m, t) ==
    IF NoInfo(m) THEN "skip"
    ELSE LET info == InfoOf(m)
         IN IF HistoryContent(info) = EmptyStr /\ extractMediaInfo(info.Message, t).mediaType = ""
              THEN "skip"
            ELSE IF info.MessageTimestamp = 0 THEN "skip"
            ELSE "store"

\* Mutant of CountAfterStore: every attempted upsert is counted.
CountAfterStore_Always(syncedCount, err) == syncedCount + 1

\* syncedCount after storeMessage returned err
CountAfterStore(syncedCount, err) == IF err THEN syncedCount ELSE syncedCount + 1

\* What the head of the conversation loop decides for a conversation:
\* "skip" (no ID, unparsable ID) or "resolve".
ConversationStep(conversation) ==
    IF conversation.ID = Nil THEN "skip"
    ELSE IF ParseJID(conversation.ID[1]).err THEN "skip"
    ELSE "resolve"

\* Whether the conversation's messages are processed: there are some, and
\* the first has info and a timestamp.
ChatStep(msgs) ==
    IF Len(msgs) = 0 THEN "next"
    ELSE IF NoInfo(LatestMsg(msgs)) THEN "next"
    ELSE IF InfoOf(LatestMsg(msgs)).MessageTimestamp = 0 THEN "next"
    ELSE "store"

hsConv == hs.batch[hs.ci]
hsJID == ParseJID(hsConv.ID[1]).jid
hsChatJID == hsConv.ID[1]

\* The live events delivered while a batch is handled.
HistoryInbox == {e \in LiveEvents : e.ID \in {"m2", "m4", "m7"}}

InitHistory ==
    /\ AuxIdle
    /\ call = NoCall
    /\ written = {}
    /\ inbox = HistoryInbox
    /\ hs = [NoBatch EXCEPT !.pc = "idle"]
    /\ hsStored = 0
    /\ chats = {}
    /\ messages = {}
    /\ objects = {}
    /\ now = 0
    /\ faults = 0
    /\ pc = [h \in Handlers |-> IF h = 1 THEN "idle" ELSE "off"]
    /\ msg = [h \in Handlers |-> NoEvent]
    /\ ext = [h \in Handlers |-> NoContent]
    /\ name = [h \in Handlers |-> EmptyStr]
    /\ mediaData = [h \in Handlers |-> <<>>]
    /\ ret = [h \in Handlers |-> NoReturn]
    /\ logs = [h \in Handlers |-> <<>>]
    /\ held = [h \in Handlers |-> Nil]
    /\ after = [h \in Handlers |-> {}]

\* The batch is dispatched to HandleHistorySync.
HandleHistorySync_Begin ==
    /\ hs.pc = "idle"
    /\ \E b \in Batches : hs' = [hs EXCEPT !.pc = "conv", !.batch = b, !.ci = 1]
    /\ UNCHANGED <<chats, messages, objects, now, faults, hsStored>>
    /\ UNCHANGED <<liveVars, inbox, call, written, auxVars>>

\* The head of the conversation loop: the ID checks and getChatName.
HandleHistorySync_Conversation ==
    /\ hs.pc = "conv"
    /\ hs.ci <= Len(hs.batch)
    /\ IF ConversationStep(hsConv) = "skip"
         THEN hs' = [hs EXCEPT !.ci = @ + 1] /\ UNCHANGED faults
         ELSE \E qfail \in FailChoices, lookup \in LookupNames(hsJID) :
                /\ hs' = [hs EXCEPT !.pc = "chat", !.name =
                        getChatName(chats, hsJID, hsChatJID,
                                    Some(ConvMeta(hsConv.DisplayName, hsConv.Name)),
                                    EmptyStr, qfail, lookup)]
                /\ Charge(qfail)
    /\ UNCHANGED <<chats, messages, objects, now, hsStored>>
    /\ UNCHANGED <<liveVars, inbox, call, written, auxVars>>

\* The checks on messages[0] and the chat upsert, whose error is dropped.
HandleHistorySync_storeChat ==
    /\ hs.pc = "chat"
    /\ IF ChatStep(hsConv.Messages) = "next"
         THEN hs' = [hs EXCEPT !.pc = "conv", !.ci = @ + 1] /\ UNCHANGED <<chats, faults>>
         ELSE \E fail \in FailChoices :
                /\ chats' = storeChat(chats, hsChatJID, hs.name,
                                InfoOf(LatestMsg(hsConv.Messages)).MessageTimestamp, fail).chats
                /\ Charge(fail)
                /\ hs' = [hs EXCEPT !.pc = "msg", !.mi = 1]
    /\ UNCHANGED <<messages, objects, now, hsStored>>
    /\ UNCHANGED <<liveVars, inbox, call, written, auxVars>>

\* One iteration of the message loop, or its end.
HandleHistorySync_Message ==
    /\ hs.pc = "msg"
    /\ IF hs.mi > Len(hsConv.Messages)
         THEN /\ hs' = [hs EXCEPT !.pc = "conv", !.ci = @ + 1]
              /\ UNCHANGED <<messages, faults, hsStored>>
       ELSE IF HistoryStep(hsConv.Messages[hs.mi], now) = "skip"
         THEN /\ hs' = [hs EXCEPT !.mi = @ + 1]
              /\ UNCHANGED <<messages, faults, hsStored>>
       ELSE \E fail \in FailChoices :
              LET row == HistoryRow(InfoOf(hsConv.Messages[hs.mi]), hsJID, hsChatJID, now)
                  r == storeMessage(chats, messages, row, fail)
              IN /\ messages' = r.messages
                 /\ Charge(fail)
                 /\ hsStored' = hsStored + (IF r.executed /\ ~r.err THEN 1 ELSE 0)
                 /\ hs' = [hs EXCEPT !.mi = @ + 1,
                                     !.syncedCount = CountAfterStore(@, r.err)]
    /\ UNCHANGED <<chats, objects, now>>
    /\ UNCHANGED <<liveVars, inbox, call, written, auxVars>>

\* After the last conversation: the count is reported.
HandleHistorySync_End ==
    /\ hs.pc = "conv"
    /\ hs.ci > Len(hs.batch)
    /\ hs' = [hs EXCEPT !.pc = "done"]
    /\ UNCHANGED <<chats, messages, objects, now, faults, hsStored>>
    /\ UNCHANGED <<liveVars, inbox, call, written, auxVars>>

HandleHistorySync ==
    \/ HandleHistorySync_Begin
    \/ HandleHistorySync_Conversation
    \/ HandleHistorySync_storeChat
    \/ HandleHistorySync_Message
    \/ HandleHistorySync_End

NextHistory == Tick \/ HandleHistorySync \/ \E h \in Handlers : HandleMessage(h)

HistorySpec == InitHistory /\ [][NextHistory]_vars

\* ------------------------------------------- the message store on its own
\* storeChat and storeMessage called in any order with any arguments.
StoreNames == {<<"n1">>, <<"n2">>}
StoreTimes == {1, 2}
\* The keys (id, chat_jid) the calls use: one id in two chats, two ids in
\* one chat.
StoreKeys == {<<"m1", ContactID>>, <<"m1", GroupID>>, <<"m2", ContactID>>}

\* The rows passed to storeMessage: two messages' worth of field values for
\* each key, without content and media, with text, with media.
StoreRows ==
    {MessageRow(k[1], k[2], ContactJID.User, x.content, 1, FALSE, x) :
        k \in StoreKeys,
        x \in {extractMessageContent(Some(p), 0) : p \in {PNone, PHello, PAudio}}}
    \cup
    {MessageRow(k[1], k[2], OwnUser, x.content, 2, TRUE, x) :
        k \in StoreKeys,
        x \in {extractMessageContent(Some(p), MaxClock) : p \in {PNone, PBye, PDoc}}}

InitStore ==
    /\ AuxIdle
    /\ call = NoCall
    /\ written = {}
    /\ inbox = {}
    /\ hs = NoBatch
    /\ hsStored = 0
    /\ chats = {}
    /\ messages = {}
    /\ objects = {}
    /\ now = 0
    /\ faults = 0
    /\ pc = [h \in Handlers |-> "off"]
    /\ msg = [h \in Handlers |-> NoEvent]
    /\ ext = [h \in Handlers |-> NoContent]
    /\ name = [h \in Handlers |-> EmptyStr]
    /\ mediaData = [h \in Handlers |-> <<>>]
    /\ ret = [h \in Handlers |-> NoReturn]
    /\ logs = [h \in Handlers |-> <<>>]
    /\ held = [h \in Handlers |-> Nil]
    /\ after = [h \in Handlers |-> {}]

Call_storeChat ==
    /\ \E jid \in {ContactID, GroupID}, n \in StoreNames, t \in StoreTimes,
          fail \in FailChoices :
         /\ chats' = storeChat(chats, jid, n, t, fail).chats
         /\ Charge(fail)
    /\ UNCHANGED <<messages, objects, now, call, written, inbox>>
    /\ UNCHANGED <<liveVars, hsVars, auxVars>>

Call_storeMessage ==
    /\ \E row \in StoreRows, fail \in FailChoices :
         LET r == storeMessage(chats, messages, row, fail)
         IN /\ messages' = r.messages
            /\ Charge(fail)
            /\ call' = [empty |-> NothingToStore(row), err |-> r.err,
                        changed |-> r.messages # messages,
                        conflict |-> \E q \in messages : SameKey(q, row)]
            /\ written' = IF r.executed /\ ~r.err
                            THEN {q \in written : ~SameKey(q, row)} \cup {row}
                            ELSE written
    /\ UNCHANGED <<chats, objects, now, inbox>>
    /\ UNCHANGED <<liveVars, hsVars, auxVars>>

NextStore == Call_storeChat \/ Call_storeMessage

StoreSpec == InitStore /\ [][NextStore]_vars

\* ------------------------------------------ the name resolver on its own
\* getChatName called with any arguments and any answers of the store and of
\* the lookups, and its result stored with storeChat as both handlers do.

\* A chat identifier without local part: what types.ParseJID yields for a
\* bare server.
ServerOnlyJID == JID(EmptyStr, <<"s.whatsapp.net">>)
ResolverJIDs == {ContactJID, GroupJID, ServerOnlyJID}

\* conversation: nil (live message), or the inline names of a history-sync
\* conversation, each nil, empty or set.
ResolverMetas ==
    { Nil,
      Some(ConvMeta(Some(<<"Disp">>), Some(<<"Team">>))),
      Some(ConvMeta(Some(EmptyStr), Some(<<"Team">>))),
      Some(ConvMeta(Nil, Some(<<"Team">>))),
      Some(ConvMeta(Some(EmptyStr), Nil)) }

ResolverSenders == {EmptyStr, <<"p1">>}

\* What client.GetGroupInfo / Contacts.GetContact answer: an error, no name,
\* a name.
LookupAnswers ==
    { [err |-> TRUE, name |-> EmptyStr], [err |-> FALSE, name |-> EmptyStr],
      [err |-> FALSE, name |-> <<"Dir">>] }

\* err == nil && name != "": the name getChatName can use from an answer.
UsableName(answer) == IF answer.err THEN EmptyStr ELSE answer.name

\* The name the chats table holds for the chat, "" when there is no row.
StoredName(chatTbl, chatJID) ==
    IF \E r \in chatTbl : r.jid = chatJID
      THEN (CHOOSE r \in chatTbl : r.jid = chatJID).name
      ELSE EmptyStr

\* The lookups getChatName performs beyond the SELECT.
getChatNameLookups(chatTbl, jid, chatJID, conversation, qfail) ==
    IF ~qfail /\ StoredName(chatTbl, chatJID) # EmptyStr THEN {}
    ELSE IF jid.Server = <<"g.us">>
      THEN LET displayName == IF conversation # Nil THEN conversation[1].DisplayName ELSE Nil
               convName == IF conversation # Nil THEN conversation[1].Name ELSE Nil
           IN IF (displayName # Nil /\ displayName[1] # EmptyStr)
                    \/ (convName # Nil /\ convName[1] # EmptyStr)
                THEN {}
                ELSE {"GetGroupInfo"}
    ELSE {"GetContact"}

InitResolver ==
    /\ res = NoRes
    /\ xt = NoXt
    /\ ogg = NoOgg
    /\ rng = 0
    /\ firstWave = Nil
    /\ call = NoCall
    /\ written = {}
    /\ inbox = {}
    /\ hs = NoBatch
    /\ hsStored = 0
    /\ chats = {}
    /\ messages = {}
    /\ objects = {}
    /\ now = 0
    /\ faults = 0
    /\ pc = [h \in Handlers |-> "off"]
    /\ msg = [h \in Handlers |-> NoEvent]
    /\ ext = [h \in Handlers |-> NoContent]
    /\ name = [h \in Handlers |-> EmptyStr]
    /\ mediaData = [h \in Handlers |-> <<>>]
    /\ ret = [h \in Handlers |-> NoReturn]
    /\ logs = [h \in Handlers |-> <<>>]
    /\ held = [h \in Handlers |-> Nil]
    /\ after = [h \in Handlers |-> {}]

Call_getChatName ==
    /\ \E jid \in ResolverJIDs, conversation \in ResolverMetas, sender \in ResolverSenders,
          qfail \in FailChoices, answer \in LookupAnswers :
         LET chatJID == JIDString(jid)
         IN /\ res' = [made |-> TRUE, jid |-> jid, conversation |-> conversation,
                       sender |-> sender, qfail |-> qfail, answer |-> answer,
                       stored |-> StoredName(chats, chatJID),
                       name |-> getChatName(chats, jid, chatJID, conversation, sender,
                                            qfail, UsableName(answer)),
                       lookups |-> getChatNameLookups(chats, jid, chatJID, conversation, qfail)]
            /\ Charge(qfail)
    /\ UNCHANGED <<chats, messages, objects, now, inbox, call, written, xt, ogg, rng, firstWave>>
    /\ UNCHANGED <<liveVars, hsVars>>

\* The storeChat call that follows getChatName in both handlers.
Call_storeResolved ==
    /\ res.made
    /\ \E fail \in FailChoices :
         /\ chats' = storeChat(chats, JIDString(res.jid), res.name, 1, fail).chats
         /\ Charge(fail)
    /\ UNCHANGED <<messages, objects, now, inbox, call, written>>
    /\ UNCHANGED <<liveVars, hsVars, auxVars>>

NextResolver == Call_getChatName \/ Call_storeResolved

ResolverSpec == InitResolver /\ [][NextResolver]_vars

\* --------------------------------------- the content extractor on its own
\* extractMessageContent called on any payload at any time.

\* msg: nil, or a payload with any of its six variants populated.
ExtractInputs ==
    {Nil} \cup
    {Some(Payload(c, e, i, v, a, d)) :
        c \in {EmptyStr, <<"hello">>},
        e \in {Nil, Some([Text |-> <<"hi">>])},
        i \in {Nil, Some(FullMedia)},
        v \in {Nil, Some(FullMedia)},
        a \in {Nil, Some(PartMedia)},
        d \in {Nil, Some(NamedDoc), Some(FullMedia)}}

InitExtract ==
    /\ res = NoRes
    /\ xt = NoXt
    /\ ogg = NoOgg
    /\ rng = 0
    /\ firstWave = Nil
    /\ call = NoCall
    /\ written = {}
    /\ inbox = {}
    /\ hs = NoBatch
    /\ hsStored = 0
    /\ chats = {}
    /\ messages = {}
    /\ objects = {}
    /\ now = 0
    /\ faults = 0
    /\ pc = [h \in Handlers |-> "off"]
    /\ msg = [h \in Handlers |-> NoEvent]
    /\ ext = [h \in Handlers |-> NoContent]
    /\ name = [h \in Handlers |-> EmptyStr]
    /\ mediaData = [h \in Handlers |-> <<>>]
    /\ ret = [h \in Handlers |-> NoReturn]
    /\ logs = [h \in Handlers |-> <<>>]
    /\ held = [h \in Handlers |-> Nil]
    /\ after = [h \in Handlers |-> {}]

Call_extractMessageContent ==
    /\ \E m \in ExtractInputs :
         xt' = [made |-> TRUE, msg |-> m, mi |-> extractMediaInfo(m, now),
                x |-> extractMessageContent(m, now)]
    /\ UNCHANGED <<chats, messages, objects, now, faults, inbox, call, written, res, ogg,
                   rng, firstWave>>
    /\ UNCHANGED <<liveVars, hsVars>>

NextExtract == Tick \/ Call_extractMessageContent

ExtractSpec == InitExtract /\ [][NextExtract]_vars

\* ------------------------------------------------------ Ogg/Opus Analyzer
\* Bytes are 0..255.  data[lo:hi] of Go is Slice(data, lo, hi).
Slice(data, lo, hi) == SubSeq(data, lo + 1, hi)

\* "OggS" and "OpusHead"
OggS == <<79, 103, 103, 83>>
OpusHead == <<79, 112, 117, 115, 72, 101, 97, 100>>

\* binary.LittleEndian.Uint16 / Uint32 / Uint64 of a byte slice.  The inputs
\* of the model keep every decoded value below 2^31.
RECURSIVE LittleEndian(_)
LittleEndian(b) == IF b = <<>> THEN 0 ELSE b[1] + 256 * LittleEndian(Tail(b))

\* bytes.Index(s, sep): the first index of sep in s, -1 when there is none.
Index(s, sep) ==
    LET hits == {k \in 0..(Len(s) - Len(sep)) : Slice(s, k, k + Len(sep)) = sep}
    IN IF hits = {} THEN -1 ELSE CHOOSE k \in hits : \A j \in hits : k <= j

RECURSIVE Sum(_)
Sum(b) == IF b = <<>> THEN 0 ELSE b[1] + Sum(Tail(b))

Zeros(n) == [j \in 1..n |-> 0]

\* var sampleRate uint32 = 48000
defaultSampleRate == 48000

\* The locals of the page scan before the loop.  highWater (history): the
\* highest granule position of the pages scanned so far.
ScanStart ==
    [lastGranule |-> 0, sampleRate |-> defaultSampleRate, preSkip |-> 0,
     foundOpusHead |-> FALSE, panic |-> FALSE, highWater |-> 0]

\* The OpusHead search on the page at offset i of pageSize bytes.  arr is the
\* array under data (data and the spare capacity behind it): a slice
\* expression past the capacity panics.
ReadOpusHead(arr, i, pageSize, st) ==
    IF i + pageSize > Len(arr) THEN [st EXCEPT !.panic = TRUE]
    ELSE LET pageData == Slice(arr, i, i + pageSize)
             found == Index(pageData, OpusHead)
             headPos == found + 8
         IN IF found >= 0 /\ found + 12 < Len(pageData) /\ headPos + 12 <= Len(pageData)
              THEN IF i + headPos + 16 > Len(arr) THEN [st EXCEPT !.panic = TRUE]
                   ELSE [st EXCEPT
                           !.preSkip = LittleEndian(Slice(arr, i + headPos + 10, i + headPos + 12)),
                           !.sampleRate = LittleEndian(Slice(arr, i + headPos + 12, i + headPos + 16)),
                           !.foundOpusHead = TRUE]
              ELSE st

\* The page-scanning loop from offset i on; n is len(data).
RECURSIVE ScanPages(_, _, _, _)
ScanPages(arr, n, i, st) ==
    IF ~(i < n) THEN st
    ELSE IF i + 27 >= n THEN st
    ELSE IF Slice(arr, i, i + 4) # OggS THEN ScanPages(arr, n, i + 1, st)
    ELSE LET granulePos == LittleEndian(Slice(arr, i + 6, i + 14))
             pageSeqNum == LittleEndian(Slice(arr, i + 18, i + 22))
             numSegments == arr[i + 26 + 1]
         IN IF i + 27 + numSegments >= n THEN st
            ELSE LET segmentTable == Slice(arr, i + 27, i + 27 + numSegments)
                     pageSize == 27 + numSegments + Sum(segmentTable)
                     st1 == IF ~st.foundOpusHead /\ pageSeqNum <= 1
                              THEN ReadOpusHead(arr, i, pageSize, st)
                              ELSE st
                     st2 == [(IF granulePos # 0 THEN [st1 EXCEPT !.lastGranule = granulePos]
                                                 ELSE st1)
                               EXCEPT !.highWater = IF granulePos > @ THEN granulePos ELSE @]
                 IN IF st1.panic THEN st1
                    ELSE ScanPages(arr, n, i + pageSize, st2)

\* uint32(f) for a float64 f outside the range of uint32 (also +Inf, NaN):
\* the result depends on the implementation; these stand for the values a
\* build may produce.
UnspecifiedUint32 == {0, 7, 301, 2147483647}

\* uint32(math.Ceil(float64(lastGranule-uint64(preSkip)) / float64(sampleRate))).
\* The unsigned difference wraps to about 2^64 when preSkip > lastGranule;
\* the quotient is then beyond uint32 for every uint32 sample rate, as it is
\* for the sample rate 0.
GranuleDuration(lastGranule, preSkip, sampleRate, unspecified) ==
    IF lastGranule < preSkip \/ sampleRate = 0 THEN unspecified
    ELSE (lastGranule - preSkip + sampleRate - 1) \div sampleRate

\* uint32(float64(len(data)) / 2000.0)
EstimatedDuration(n) == n \div 2000

\* The clamp without its lower limit.
ClampDuration_NoFloor(d) == IF d > 300 THEN 300 ELSE d

\* The clamp to 1..300 seconds
ClampDuration(d) == IF d < 1 THEN 1 ELSE IF d > 300 THEN 300 ELSE d

\* const waveformLength = 64
waveformLength == 64

\* math/rand's process-wide generator: its states, the state after k calls
\* of Float64(), and the value (in RngStates-ths) a Float64() in a state
\* yields.
RngStates == 0..6
RngAfter(g, k) == (g + k) % Cardinality(RngStates)
RngFloat(g) == (g * 3) % Cardinality(RngStates)

\* math.Sin(math.Pi * n / den) in hundredths, by the parabola 4f(1-f) on
\* each half period.
SinPi(n, den) ==
    LET x == n % (2 * den)
        y == IF x < den THEN x ELSE x - den
        v == (400 * y * (den - y)) \div (den * den)
    IN IF x < den THEN v ELSE 0 - v

\* One sample of placeholderWaveform: i is the index, g the generator state
\* its rand.Float64() finds.  Computed in hundredths.
WaveSample(duration, i, g) ==
    LET m == IF duration < 120 THEN duration ELSE 120
        den == waveformLength * 30
        wave == 35 * SinPi(i * m * 8, den) + (35 * SinPi(i * m * 16, den)) \div 2
        jitter == ((2 * RngFloat(g) - Cardinality(RngStates)) * 1500)
                     \div (2 * Cardinality(RngStates))
        fadeInOut == SinPi(i, waveformLength)
        val == ((wave + jitter) * (70 + (30 * fadeInOut) \div 100)) \div 100 + 5000
    IN (IF val < 0 THEN 0 ELSE IF val > 10000 THEN 10000 ELSE val) \div 100

\* placeholderWaveform(duration) called with the process-wide generator in
\* state g.  The generator made by rand.New(rand.NewSource(int64(duration)))
\* is dropped; every rand.Float64() draws from the process-wide one.
placeholderWaveform(duration, g) ==
    [waveform |-> [i \in 1..waveformLength |-> WaveSample(duration, i - 1, RngAfter(g, i - 1))],
     rng |-> RngAfter(g, waveformLength)]

\* An input of AnalyzeOggOpus: the bytes of data and the spare capacity of
\* the array under it (zero bytes).
OggInput(bytes, spare) == [data |-> bytes, spare |-> spare]

\* ---- the byte sequences analyzed
\* n as k little-endian bytes
RECURSIVE LEBytes(_, _)
LEBytes(n, k) == IF k = 0 THEN <<>> ELSE <<n % 256>> \o LEBytes(n \div 256, k - 1)

\* An Ogg page: capture pattern, version, flags, granule position, serial
\* number, page sequence number, checksum, segment count, segment table, body.
OggPage(granulePos, pageSeqNum, segmentTable, body) ==
    OggS \o <<0, 0>> \o LEBytes(granulePos, 8) \o LEBytes(1, 4) \o LEBytes(pageSeqNum, 4)
         \o LEBytes(0, 4) \o <<Len(segmentTable)>> \o segmentTable \o body

\* A page body with the OpusHead marker: the marker, 10 bytes, then the two
\* bytes the analyzer reads as pre-skip and the four it reads as sample rate.
HeadBody(preSkip, sampleRate) ==
    OpusHead \o <<1, 1, 0, 0, 0, 0, 0, 0, 0, 0>> \o LEBytes(preSkip, 2) \o LEBytes(sampleRate, 4)

\* A stream: head page, a page without granule position, an audio page.
OggStream(preSkip, sampleRate, granulePos) ==
    OggPage(0, 0, <<24>>, HeadBody(preSkip, sampleRate))
        \o OggPage(0, 1, <<2>>, <<9, 9>>)
        \o OggPage(granulePos, 2, <<2>>, <<9, 9>>)

OggInputs ==
    { OggInput(<<>>, 0),                                      \* no bytes
      OggInput(<<79, 103, 103>>, 0),                          \* "Ogg"
      OggInput(<<82, 73, 70, 70, 0, 0, 0, 0>>, 0),            \* "RIFF...."
      OggInput(<<0>> \o OggStream(0, 48000, 96000), 0),       \* signature at offset 1
      OggInput(OggS, 0),                                      \* the signature alone
      OggInput(OggStream(312, 48000, 240312), 0),             \* 5 seconds
      OggInput(OggStream(0, 48000, 96001), 0),                \* a sample over 2 seconds
      OggInput(OggStream(0, 1, 1000000), 0),                  \* 1000000 seconds
      OggInput(OggStream(0, 0, 96000), 0),                    \* sample rate 0
      OggInput(OggStream(4000, 48000, 960), 0),               \* granule below pre-skip
      OggInput(OggStream(0, 48000, 0), 0),                    \* no granule position
      \* 5 seconds, then a trailing page with the granule position of 1 second
      OggInput(OggStream(0, 48000, 240000) \o OggPage(48000, 3, <<2>>, <<9, 9>>), 0),
      \* the segment table of the head page runs past the end of the input
      OggInput(OggPage(0, 0, <<255>>, HeadBody(0, 48000)), 0),
      OggInput(OggPage(0, 0, <<255>>, HeadBody(0, 48000)), 256),
      \* the marker so late in the page that the sample rate lies behind it
      OggInput(OggPage(960, 0, <<21>>, Slice(HeadBody(0, 48000), 0, 21)), 0) }

\* The page scan of each input and the waveform of each duration and
\* generator state, computed once.
ScanOf ==
    [in \in OggInputs |-> ScanPages(in.data \o Zeros(in.spare), Len(in.data), 0, ScanStart)]
WaveformOf == [duration \in 0..300, g \in RngStates |-> placeholderWaveform(duration, g)]

\* The signature test at the head of AnalyzeOggOpus, and the same test with
\* the first three bytes only.
HasOggSignature_Prefix(data) == Len(data) >= 3 /\ Slice(data, 0, 3) = Slice(OggS, 0, 3)
HasOggSignature(data) == ~(Len(data) < 4 \/ Slice(data, 0, 4) # OggS)

\* AnalyzeOggOpus(data) with the process-wide generator in state g.
\* panic: the call aborts on a slice expression out of range.
AnalyzeOggOpus(in, g, unspecified) ==
    LET data == in.data
        n == Len(data)
    IN IF ~HasOggSignature(data)
         THEN [duration |-> 0, waveform |-> Nil, err |-> TRUE, panic |-> FALSE, rng |-> g]
       ELSE LET st == ScanOf[in]
                raw == IF st.lastGranule > 0
                         THEN GranuleDuration(st.lastGranule, st.preSkip, st.sampleRate,
                                              unspecified)
                         ELSE EstimatedDuration(n)
                duration == ClampDuration(raw)
                w == WaveformOf[duration, g]
            IN IF st.panic
                 THEN [duration |-> 0, waveform |-> Nil, err |-> FALSE, panic |-> TRUE,
                       rng |-> g]
                 ELSE [duration |-> duration, waveform |-> Some(w.waveform), err |-> FALSE,
                       panic |-> FALSE, rng |-> w.rng]

InitOgg ==
    /\ res = NoRes
    /\ xt = NoXt
    /\ ogg = NoOgg
    /\ rng \in RngStates
    /\ firstWave = Nil
    /\ call = NoCall
    /\ written = {}
    /\ inbox = {}
    /\ hs = NoBatch
    /\ hsStored = 0
    /\ chats = {}
    /\ messages = {}
    /\ objects = {}
    /\ now = 0
    /\ faults = 0
    /\ pc = [h \in Handlers |-> "off"]
    /\ msg = [h \in Handlers |-> NoEvent]
    /\ ext = [h \in Handlers |-> NoContent]
    /\ name = [h \in Handlers |-> EmptyStr]
    /\ mediaData = [h \in Handlers |-> <<>>]
    /\ ret = [h \in Handlers |-> NoReturn]
    /\ logs = [h \in Handlers |-> <<>>]
    /\ held = [h \in Handlers |-> Nil]
    /\ after = [h \in Handlers |-> {}]

\* The first placeholderWaveform call is remembered.
Remember(duration, waveform) ==
    firstWave' = IF firstWave = Nil
                   THEN Some([duration |-> duration, waveform |-> waveform])
                   ELSE firstWave

Call_AnalyzeOggOpus ==
    /\ \E in \in OggInputs, unspecified \in UnspecifiedUint32 :
         LET r == AnalyzeOggOpus(in, rng, unspecified)
         IN /\ ogg' = [made |-> TRUE, op |-> "AnalyzeOggOpus", in |-> in, duration |-> r.duration,
                       waveform |-> r.waveform, err |-> r.err, panic |-> r.panic,
                       before |-> rng]
            /\ rng' = r.rng
            /\ IF r.waveform # Nil THEN Remember(r.duration, r.waveform[1])
                                   ELSE UNCHANGED firstWave
    /\ UNCHANGED <<chats, messages, objects, now, faults, inbox, call, written, res, xt>>
    /\ UNCHANGED <<liveVars, hsVars>>

\* placeholderWaveform called on its own.
WaveDurations == {0, 1, 5, 300}

Call_placeholderWaveform ==
    /\ \E duration \in WaveDurations :
         LET w == WaveformOf[duration, rng]
         IN /\ ogg' = [made |-> TRUE, op |-> "placeholderWaveform",
                       in |-> OggInput(<<>>, 0), duration |-> duration,
                       waveform |-> Some(w.waveform), err |-> FALSE, panic |-> FALSE,
                       before |-> rng]
            /\ rng' = w.rng
            /\ Remember(duration, w.waveform)
    /\ UNCHANGED <<chats, messages, objects, now, faults, inbox, call, written, res, xt>>
    /\ UNCHANGED <<liveVars, hsVars>>

NextOgg == Call_AnalyzeOggOpus \/ Call_placeholderWaveform

OggSpec == InitOgg /\ [][NextOgg]_vars

\* =================================================================== claims
ChatRowsOf(tbl, jid) == {r \in tbl : r.jid = jid}
MessageRowsOf(tbl, id, jid) == {r \in tbl : r.id = id /\ r.chat_jid = jid}
UploadAttempted(h) ==
    Has(logs[h], "Failed to upload message to S3") \/ Has(logs[h], "Uploaded message")

\* C1 (as claimed): whenever the listing found the destination key, the
\* uploader put nothing and returned the <bucket>/<key> path with no error.
C1_ExistingKeyIsSuccess ==
    \A h \in Handlers :
        Has(logs[h], "Object already exists. Skipping upload")
            => /\ ret[h].err = FALSE
               /\ ret[h].filePath = FilePath(objectKeyOf(h))

\* C2 (as claimed): a run of the uploader against a key that held bytes B when
\* the run listed the bucket leaves B at that key, whatever the listing did.
C2_ExistingBytesKept ==
    \A h \in Handlers :
        (held[h] # Nil /\ pc[h] \in {"wait", "done"})
            => /\ KeyExists(objects, objectKeyOf(h))
               /\ BodyAt(objects, objectKeyOf(h)) = held[h][1]

\* C3 (as claimed): a handler whose message upsert failed has still attempted
\* the archival upload when it returns.
C3_ArchivalStillAttempted ==
    \A h \in Handlers :
        (pc[h] = "done" /\ Has(logs[h], "Failed to store message")) => UploadAttempted(h)

\* C3 (amended): a handler whose message upsert failed returns right away: it
\* never calls uploadMessageToS3, so no upload outcome is logged or returned
\* and it is never at a step of the upload.
C3_FailedUpsertReturns ==
    \A h \in Handlers :
        Has(logs[h], "Failed to store message")
            => /\ pc[h] = "done"
               /\ ~UploadAttempted(h)
               /\ ret[h] = NoReturn
               /\ logs[h][Len(logs[h])] = "Failed to store message"

\* A handler has returned after its message upsert failed.
C3_Witness ==
    \E h \in Handlers : pc[h] = "done" /\ Has(logs[h], "Failed to store message")

Discarded(x) == x.content = EmptyStr /\ x.mediaType # "audio"

\* C4: a live message with empty content and a media type other than audio
\* makes HandleMessage return in its first step, before the chat name is
\* resolved: that step leaves the chats, the messages and the objects as
\* they are, and the returned handler takes no further step.
C4_NonAudioEmptyDiscarded ==
    [][\A h \in Handlers :
          /\ (pc[h] = "idle" /\ pc'[h] # "idle" /\ Discarded(ext'[h]))
                => /\ pc'[h] = "done"
                   /\ name'[h] = EmptyStr
                   /\ chats' = chats /\ messages' = messages /\ objects' = objects
          /\ (pc[h] = "done" => pc'[h] = "done" /\ logs'[h] = logs[h])]_vars

\* One handler has discarded an image without caption, another a message
\* without text and media.
C4_Witness ==
    /\ \E h \in Handlers :
         pc[h] = "done" /\ ext[h].content = EmptyStr /\ ext[h].mediaType = "image"
    /\ \E h \in Handlers :
         pc[h] = "done" /\ msg[h] # NoEvent /\ ext[h].content = EmptyStr
            /\ ext[h].mediaType = ""

\* C9 (as claimed): when a message that a handler has already stored and
\* archived without failure is delivered again later, the second handling
\* leaves the message row with the filename of the first handling and the
\* bucket with the objects of the first handling only.
C9_RedeliveryIdempotent ==
    \A h1, h2 \in Handlers :
        (/\ h1 \in after[h2] /\ msg[h1] = msg[h2]
         /\ pc[h2] = "done" /\ faults = 0
         /\ Has(logs[h1], "Uploaded message"))
            => /\ \A r \in MessageRowsOf(messages, msg[h1].ID, chatJIDOf(h1)) :
                     r.filename = ext[h1].filename
               /\ \A o \in objects : o.key = objectKeyOf(h1)

UniqueChatRows(tbl) == \A r1, r2 \in tbl : r1.jid = r2.jid => r1 = r2

\* C10: there is one chat row per chat identifier at most, the chats table
\* changes only in a storeChat step, and a storeChat that succeeds leaves the
\* row of its chat equal to exactly the name and timestamp it was called
\* with, whatever the row held before: whichever storeChat runs last decides
\* the row.
C10_LastWriteWins ==
    [][/\ UniqueChatRows(chats')
       /\ chats' # chats => \E h \in Handlers : pc[h] = "storeChat" /\ pc'[h] = "storeMessage"
       /\ \A h \in Handlers :
            (pc[h] = "storeChat" /\ pc'[h] = "storeMessage"
                /\ logs'[h][Len(logs'[h])] = "Updated chat")
              => /\ ChatRowsOf(chats', chatJIDOf(h))
                    = {ChatRow(chatJIDOf(h), name[h], msg[h].Timestamp)}
                 /\ \A r \in chats' : r.jid # chatJIDOf(h) => r \in chats]_vars

\* Two handlers of one chat have both stored the chat, and the row holds the
\* older timestamp and the name of the handler that wrote it.
C10_Witness ==
    \E h1, h2 \in Handlers :
        /\ h1 # h2 /\ chatJIDOf(h1) = chatJIDOf(h2)
        /\ Has(logs[h1], "Updated chat") /\ Has(logs[h2], "Updated chat")
        /\ msg[h1].Timestamp < msg[h2].Timestamp
        /\ name[h1] # name[h2]
        /\ ChatRow(chatJIDOf(h1), name[h1], msg[h1].Timestamp) \in chats

\* ---- history sync
\* The messages of a conversation that the loop passes to storeMessage.
Storable(conv) == SelectSeq(conv.Messages, LAMBDA m : HistoryStep(m, 0) = "store")
\* The timestamp of a message, 0 when it has none (GetMessageTimestamp).
TimeOf(m) == IF NoInfo(m) THEN 0 ELSE InfoOf(m).MessageTimestamp

\* The storable messages of the conversation are three, oldest first.
ThreeAscending(conv) ==
    LET st == Storable(conv)
    IN Len(st) = 3 /\ TimeOf(st[1]) < TimeOf(st[2]) /\ TimeOf(st[2]) < TimeOf(st[3])

\* Conversation i of the handled batch got its chat upserted, and nothing
\* wrote that chat after it: no later conversation of the batch and no live
\* handler.
ChatSettled(i) ==
    /\ hs.pc = "done" /\ faults = 0
    /\ ConversationStep(hs.batch[i]) = "resolve"
    /\ ChatStep(hs.batch[i].Messages) = "store"
    /\ \A j \in (i + 1)..Len(hs.batch) : hs.batch[j].ID # hs.batch[i].ID
    /\ \A h \in Handlers :
         ~(Has(logs[h], "Updated chat") /\ chatJIDOf(h) = hs.batch[i].ID[1])

RECURSIVE StorableCount(_)
StorableCount(b) ==
    IF b = <<>> THEN 0
    ELSE (IF ConversationStep(b[1]) = "resolve" /\ ChatStep(b[1].Messages) = "store"
            THEN Len(Storable(b[1])) ELSE 0) + StorableCount(Tail(b))

\* C6: the count HandleHistorySync reports is the number of message upserts
\* it had the store execute and that returned no error; it is so after every
\* step of the batch, and a skipped message or a failed upsert adds nothing.
C6_CountIsStoredUpserts ==
    /\ hs.syncedCount = hsStored
    /\ hs.syncedCount <= StorableCount(hs.batch)

\* A batch was handled in which messages were skipped, an upsert failed and
\* others were stored.
C6_Witness ==
    /\ hs.pc = "done"
    /\ 0 < hs.syncedCount /\ hs.syncedCount < StorableCount(hs.batch)
    /\ \E c \in 1..Len(hs.batch) : Len(Storable(hs.batch[c])) < Len(hs.batch[c].Messages)

\* ---- the message store
\* C7: the messages table never holds a row with empty content and empty
\* media type, and a storeMessage call with both empty changes nothing and
\* returns no error.
C7_NoEmptyMessageRow ==
    /\ \A r \in messages : ~(r.content = EmptyStr /\ r.media_type = "")
    /\ call.empty => (~call.err /\ ~call.changed)

\* A call with both empty was made on a table that holds rows, one of which
\* has the key of the call.
C7_Witness == call.empty /\ call.conflict /\ messages # {}

UniqueMessageKeys(tbl) == \A r1, r2 \in tbl : SameKey(r1, r2) => r1 = r2

\* C8: after any sequence of storeMessage calls the table holds one row per
\* key at most and exactly the rows of the last executed, successful upsert
\* of each key, field for field; and a second call with the values of a call
\* just made changes nothing.
C8_UpsertOverwritesAll ==
    /\ UniqueMessageKeys(messages)
    /\ messages = written
    /\ \A row \in StoreRows :
         LET once == storeMessage(chats, messages, row, FALSE)
         IN storeMessage(chats, once.messages, row, FALSE).messages = once.messages

\* An upsert has just overwritten the row of its key, and the table holds
\* rows of two keys.
C8_Witness ==
    /\ call.conflict /\ call.changed /\ ~call.err
    /\ Cardinality(messages) >= 2

\* ---- chat rows over time
\* C11 (as claimed): no step lowers the last_message_time stored for a chat.
C11_LastMessageTimeNeverDecreases ==
    [][\A r \in chats : \A q \in chats' :
          q.jid = r.jid => q.last_message_time >= r.last_message_time]_vars

\* ---- the name resolver
\* C12 (as claimed): getChatName never returns an empty name, and no chat
\* row holds an empty name.
C12_NameNeverEmpty ==
    /\ res.made => res.name # EmptyStr
    /\ \A r \in chats : r.name # EmptyStr

\* C13 (as claimed): a getChatName call made while the chat's row holds a
\* non-empty name returns that name and performs no lookup.
C13_StoredNameReturned ==
    (res.made /\ res.stored # EmptyStr)
        => (res.name = res.stored /\ res.lookups = {})

\* C20: with no non-empty name stored, getChatName picks, for a group, the
\* inline DisplayName, else the inline Name, else the name of a successful
\* group-info lookup, else "Group <user>"; for any other identifier the full
\* name of a successful directory lookup, else the sender, else the
\* identifier's user part.  Each taken when not empty.
C20_NamePriority ==
    (res.made /\ res.stored = EmptyStr) =>
        LET conv == res.conversation
            hasDisplay == conv # Nil /\ conv[1].DisplayName # Nil
                            /\ conv[1].DisplayName[1] # EmptyStr
            hasName == conv # Nil /\ conv[1].Name # Nil /\ conv[1].Name[1] # EmptyStr
            looked == ~res.answer.err /\ res.answer.name # EmptyStr
        IN IF res.jid.Server = <<"g.us">>
             THEN /\ hasDisplay => res.name = conv[1].DisplayName[1]
                  /\ (~hasDisplay /\ hasName) => res.name = conv[1].Name[1]
                  /\ (~hasDisplay /\ ~hasName /\ looked) => res.name = res.answer.name
                  /\ (~hasDisplay /\ ~hasName /\ ~looked)
                        => res.name = <<"Group ">> \o res.jid.User
             ELSE /\ looked => res.name = res.answer.name
                  /\ (~looked /\ res.sender # EmptyStr) => res.name = res.sender
                  /\ (~looked /\ res.sender = EmptyStr) => res.name = res.jid.User

\* A group was resolved from its inline Name because the DisplayName was
\* empty, although the lookup had a name too.
C20_Witness ==
    /\ res.made /\ res.stored = EmptyStr
    /\ res.jid = GroupJID
    /\ res.conversation = Some(ConvMeta(Some(EmptyStr), Some(<<"Team">>)))
    /\ res.answer = [err |-> FALSE, name |-> <<"Dir">>]
    /\ res.name = <<"Team">>

\* ---- archival of live messages
TextOnly(x) == x.content # EmptyStr /\ x.mediaType = ""

\* C14 (as claimed): when the handling of a live text message completes, no
\* collaborator call having failed and every other handler having returned
\* before this one began or not begun yet, there is a chat row with the message's timestamp, a message row with its
\* content, and the object at its key holds the bytes of its content.
C14_TextArchived ==
    [][\A h \in Handlers :
          (/\ pc[h] # "done" /\ pc'[h] = "done"
           /\ faults' = 0
           /\ TextOnly(ext'[h])
           /\ \A g \in Handlers \ {h} : pc[g] = "idle" \/ g \in after[h])
            => /\ \E r \in chats' : /\ r.jid = chatJIDOf(h)
                                    /\ r.last_message_time = msg[h].Timestamp
               /\ \E r \in messages' : /\ r.id = msg[h].ID /\ r.chat_jid = chatJIDOf(h)
                                       /\ r.content = ext[h].content
               /\ KeyExists(objects', objectKeyOf(h))
               /\ BodyAt(objects', objectKeyOf(h)) = ext[h].content]_vars

\* The handler's PutObject was executed and did not fail.
PutExecuted(h) ==
    /\ \/ pc[h] = "wait"
       \/ Has(logs[h], "Uploaded message")
       \/ Has(logs[h], "Failed attempt to wait for object")
    /\ ~Has(logs[h], "The object is too large")
    /\ ~Has(logs[h], "Couldn't upload file")

\* C15: a handler that passed the existence check puts its object; and when
\* two handlers with the same key both listed the bucket while the key did
\* not exist and both have put, the bucket holds one object at that key,
\* with the bytes of one of the two.
C15_ConcurrentPutsOneObject ==
    /\ \A h \in Handlers : PutExecuted(h) => KeyExists(objects, objectKeyOf(h))
    /\ \A h1, h2 \in Handlers :
         (/\ h1 # h2 /\ objectKeyOf(h1) = objectKeyOf(h2)
          /\ PutExecuted(h1) /\ PutExecuted(h2)
          /\ held[h1] = Nil /\ held[h2] = Nil)
            => /\ Cardinality({o \in objects : o.key = objectKeyOf(h1)}) = 1
               /\ BodyAt(objects, objectKeyOf(h1)) \in {mediaData[h1], mediaData[h2]}

\* Two handlers with one key and different bytes both found the key missing
\* and both have put.
C15_Witness ==
    \E h1, h2 \in Handlers :
        /\ h1 # h2 /\ objectKeyOf(h1) = objectKeyOf(h2)
        /\ PutExecuted(h1) /\ PutExecuted(h2)
        /\ held[h1] = Nil /\ held[h2] = Nil
        /\ mediaData[h1] # mediaData[h2]
        /\ pc[h1] = "done" /\ pc[h2] = "done"

\* ---- the content extractor
\* The media variants of a payload that are populated.
Populated(p) ==
    {v \in {"image", "video", "audio", "document"} :
        \/ v = "image" /\ p.ImageMessage # Nil
        \/ v = "video" /\ p.VideoMessage # Nil
        \/ v = "audio" /\ p.AudioMessage # Nil
        \/ v = "document" /\ p.DocumentMessage # Nil}

\* C19: extractMediaInfo returns the type of the first populated variant in
\* the order image, video, audio, document, and no type when none is
\* populated or the payload is nil; so the type of the only populated
\* variant when there is one.  For a payload without text and media
\* extractMessageContent returns empty content, media type and filename.
C19_FirstPopulatedVariant ==
    xt.made =>
        /\ xt.x.mediaType = xt.mi.mediaType
        /\ IF xt.msg = Nil THEN xt.mi.mediaType = ""
           ELSE LET pop == Populated(xt.msg[1])
                IN /\ xt.mi.mediaType = (IF "image" \in pop THEN "image"
                                         ELSE IF "video" \in pop THEN "video"
                                         ELSE IF "audio" \in pop THEN "audio"
                                         ELSE IF "document" \in pop THEN "document"
                                         ELSE "")
                   /\ \A v \in pop : pop = {v} => xt.mi.mediaType = v
        /\ (xt.msg = Nil \/ (/\ Populated(xt.msg[1]) = {}
                             /\ xt.msg[1].Conversation = EmptyStr
                             /\ xt.msg[1].ExtendedTextMessage = Nil))
              => /\ xt.x.content = EmptyStr
                 /\ xt.x.mediaType = ""
                 /\ xt.x.filename = EmptyStr

\* A payload with a video and a document and no image was extracted as video.
C19_Witness ==
    /\ xt.made /\ xt.msg # Nil
    /\ Populated(xt.msg[1]) = {"video", "document"}
    /\ xt.mi.mediaType = "video"

\* ---- the Ogg/Opus analyzer
Analyzed == ogg.made /\ ogg.op = "AnalyzeOggOpus"

\* C16: for an input shorter than 4 bytes or not starting with "OggS",
\* AnalyzeOggOpus returns a format error together with the duration 0 and no
\* waveform (and it draws nothing from the generator).
C16_NoSignatureIsError ==
    (Analyzed /\ (Len(ogg.in.data) < 4 \/ SubSeq(ogg.in.data, 1, 4) # OggS))
        => /\ ogg.err /\ ~ogg.panic
           /\ ogg.duration = 0
           /\ ogg.waveform = Nil
           /\ rng = ogg.before

\* The analyzer was called on three bytes, the first three of the signature,
\* and returned the error.
C16_Witness ==
    /\ Analyzed /\ ogg.err
    /\ ogg.in.data = SubSeq(OggS, 1, 3)
    /\ ogg.duration = 0 /\ ogg.waveform = Nil

\* C17: whenever AnalyzeOggOpus returns a result (no error, no abort), the
\* returned duration is within 1..300 seconds, whatever the raw value was:
\* computed from granule position, pre-skip and sample rate, produced by an
\* out-of-range conversion, or estimated from the byte length.
C17_DurationClamped ==
    (Analyzed /\ ~ogg.err /\ ~ogg.panic)
        => /\ ogg.duration >= 1
           /\ ogg.duration <= 300
           /\ ogg.waveform # Nil

\* A stream of 1000000 samples at 1 sample per second was analyzed and the
\* duration 300 was returned.
C17_Witness ==
    /\ Analyzed /\ ~ogg.err /\ ~ogg.panic
    /\ ScanOf[ogg.in].lastGranule = 1000000
    /\ ScanOf[ogg.in].sampleRate = 1
    /\ ogg.duration = 300

\* C18 (as claimed): a placeholderWaveform call with the duration of the
\* first call of the process returns the waveform the first call returned.
C18_SameDurationSameWaveform ==
    (ogg.made /\ ogg.waveform # Nil /\ firstWave # Nil
        /\ ogg.duration = firstWave[1].duration)
        => ogg.waveform[1] = firstWave[1].waveform

\* ---- the order of the steps of HandleMessage
ChatUpsertLogged(h) == Has(logs[h], "Failed to store chat") \/ Has(logs[h], "Updated chat")
MessageUpsertLogged(h) ==
    Has(logs[h], "Failed to store message") \/ Has(logs[h], "Stored message")
UploadStep(h) == pc[h] \in {"upload", "list", "put", "wait"}

\* Every occurrence of a line of lines in seq has a line of firsts before it.
Preceded(seq, firsts, lines) ==
    \A i \in 1..Len(seq) :
        seq[i] \in lines => \E j \in 1..(i - 1) : seq[j] \in firsts

\* C21: within one HandleMessage invocation the message upsert is attempted
\* only after the chat upsert was, the archival upload only after the message
\* upsert was (and succeeded), and an invocation whose chat upsert failed has
\* attempted the message upsert by the time it returns; the name is resolved
\* before any of them.
C21_StepOrder ==
    \A h \in Handlers :
        /\ pc[h] = "getChatName" => logs[h] = <<>>
        /\ pc[h] = "storeMessage" => ChatUpsertLogged(h) /\ ~MessageUpsertLogged(h)
        /\ pc[h] = "storeChat" => ~ChatUpsertLogged(h) /\ ~MessageUpsertLogged(h)
        /\ UploadStep(h) => Has(logs[h], "Stored message") /\ ~UploadAttempted(h)
        /\ Preceded(logs[h], {"Failed to store chat", "Updated chat"},
                    {"Failed to store message", "Stored message"})
        /\ Preceded(logs[h], {"Stored message"},
                    {"Failed to upload message to S3", "Uploaded message",
                     "Object already exists. Skipping upload", "Bucket does not exist",
                     "The object is too large", "Couldn't upload file",
                     "Failed attempt to wait for object"})
        /\ (pc[h] = "done" /\ Has(logs[h], "Failed to store chat")) => MessageUpsertLogged(h)

\* An invocation whose chat upsert failed stored its message and archived it.
C21_Witness ==
    \E h \in Handlers :
        /\ pc[h] = "done"
        /\ logs[h] = <<"Failed to store chat", "Stored message", "Uploaded message">>

\* C22 (as claimed): every message row the live path has written has the
\* media_type none or audio, never image, video or document.
C22_LiveRowsNoneOrAudio ==
    \A r \in messages : r.media_type \in {"", "audio"}

\* ---- the errors of the uploader
PutFailedOversize(h) == pc[h] = "done" /\ Has(logs[h], "The object is too large")

\* C23 (as claimed): an invocation whose put failed with EntityTooLarge gets
\* an error from the uploader, and that error is not the error an invocation
\* gets whose put failed otherwise.
C23_OversizeErrorDistinct ==
    \A h \in Handlers :
        PutFailedOversize(h) => /\ ret[h].err
                                /\ ret[h].cause \notin {"waiter", "error"}

\* The media info a download needs is incomplete.
IncompleteMedia(x) ==
    x.url = EmptyStr \/ Len(x.mediaKey) = 0 \/ Len(x.fileSHA256) = 0
        \/ Len(x.fileEncSHA256) = 0 \/ x.fileLength = 0

RowsOfMessage(h) == MessageRowsOf(messages, msg[h].ID, chatJIDOf(h))

\* C24: when uploadMessageToS3 runs for a message with a media type and the
\* media fetch fails (a type other than audio, incomplete media information,
\* or a failing download), it returns an error at once: the bucket is not
\* listed, no object is put, and the chat and message rows stay as they are.
C24_FetchFailureAborts ==
    [][\A h \in Handlers :
         (/\ pc[h] = "upload" /\ pc'[h] # "upload"
          /\ ext[h].mediaType # ""
          /\ (ext[h].mediaType # "audio" \/ IncompleteMedia(ext[h]) \/ faults' # faults))
            => /\ pc'[h] = "done"
               /\ ret'[h].err /\ ret'[h].filePath = EmptyStr
               /\ ret'[h].cause = "download"
               /\ objects' = objects /\ held' = held
               /\ chats' = chats /\ messages' = messages]_vars

\* A message with text and an image was stored, its archival returned the
\* error of the media fetch, and its row is there.
C24_Witness ==
    \E h \in Handlers :
        /\ pc[h] = "done" /\ ret[h].cause = "download"
        /\ ext[h].mediaType = "image"
        /\ RowsOfMessage(h) # {}
        /\ ~KeyExists(objects, objectKeyOf(h))

\* ---- eligibility in a history-sync batch
\* A history message with a payload and with content or a media type.
Eligible(m) ==
    /\ ~NoInfo(m)
    /\ InfoOf(m).Message # Nil
    /\ \/ HistoryContent(InfoOf(m)) # EmptyStr
       \/ extractMediaInfo(InfoOf(m).Message, 0).mediaType # ""

\* C25 (as claimed): when a batch has been handled without any failure, every
\* eligible message of every conversation with a parsable id has had its
\* upsert, so its row is in the table, whatever the other messages of the
\* conversation are.
C25_EligibleMessagesStored ==
    (hs.pc = "done" /\ faults = 0)
        => \A ci \in 1..Len(hs.batch) :
             LET conversation == hs.batch[ci]
             IN ConversationStep(conversation) = "resolve"
                  => \A mi \in 1..Len(conversation.Messages) :
                       LET m == conversation.Messages[mi]
                       IN Eligible(m)
                            => MessageRowsOf(messages, HistoryMsgID(InfoOf(m)),
                                             conversation.ID[1]) # {}

\* ---- the duration AnalyzeOggOpus computes
Returned == Analyzed /\ ~ogg.err /\ ~ogg.panic

\* C26 (as claimed): the granule position the duration is computed from is
\* the highest one of the scanned pages; a later page with a smaller non-zero
\* granule position does not lower the duration.
C26_GranuleHighWaterMark ==
    Returned
        => LET st == ScanOf[ogg.in]
           IN /\ st.lastGranule = st.highWater
              /\ (st.highWater >= st.preSkip /\ st.sampleRate > 0 /\ st.highWater > 0)
                   => ogg.duration =
                        ClampDuration(GranuleDuration(st.highWater, st.preSkip,
                                                      st.sampleRate, 0))

\* C27 (as claimed): on every input that starts with the Ogg signature,
\* however truncated or corrupt, AnalyzeOggOpus returns a duration and a
\* waveform of 64 bytes with no error and does not abort on a read out of
\* range.
C27_NeverAborts ==
    (Analyzed /\ Len(ogg.in.data) >= 4 /\ SubSeq(ogg.in.data, 1, 4) = OggS)
        => /\ ~ogg.panic
           /\ ~ogg.err
           /\ ogg.waveform # Nil

\* ceil(a / b) of a signed a and a positive b
SignedCeil(a, b) == IF a <= 0 THEN 0 - ((0 - a) \div b) ELSE (a + b - 1) \div b

\* C28 (as claimed): with a non-zero granule position G observed, the returned
\* duration is ceil((G - pre_skip) / sample_rate) clamped to 1..300, the
\* difference taken as a signed quantity: 1 when G is at most the pre-skip.
C28_SignedDuration ==
    Returned
        => LET st == ScanOf[ogg.in]
           IN (st.lastGranule > 0 /\ st.sampleRate > 0)
                => ogg.duration =
                     ClampDuration(SignedCeil(st.lastGranule - st.preSkip, st.sampleRate))

\* C29: uploadToS3 returns from its wait with success only when the key is in
\* the bucket at the wait; after a failed put with the key absent it returns
\* an error; and the error it returns is the waiter's, never the put's.
C29_SuccessOnlyIfObserved ==
    [][\A h \in Handlers :
         (pc[h] = "wait" /\ pc'[h] = "done")
            => /\ ~ret'[h].err => KeyExists(objects, objectKeyOf(h))
               /\ (PutErrorOf(h) # NoError /\ ~KeyExists(objects, objectKeyOf(h)))
                    => ret'[h].err
               /\ ret'[h].cause \in {NoError, "waiter"}
               /\ ret'[h].err <=> Has(logs'[h], "Failed attempt to wait for object")]_vars

\* A put failed as too large, the key was in the bucket all the same (put by
\* the other invocation), and the uploader returned success.
C29_Witness ==
    \E h \in Handlers :
        /\ pc[h] = "done"
        /\ Has(logs[h], "The object is too large")
        /\ ~ret[h].err /\ ret[h].filePath = FilePath(objectKeyOf(h))

\* ---- the foreign key from messages to chats
\* C30: every message row's chat_jid is the jid of a chat row; a message
\* upsert for a chat without a row (its chat upsert failed) fails and leaves
\* no row.
C30_NoOrphanRows ==
    \A r \in messages : \E c \in chats : c.jid = r.chat_jid

\* The chat upsert of a live message failed, the chat has no row, and the
\* message upsert failed without an injected failure of its own.
C30_Witness ==
    \E h \in Handlers :
        /\ pc[h] = "done"
        /\ logs[h] = <<"Failed to store chat", "Failed to store message">>
        /\ faults = 1
        /\ ChatRowsOf(chats, chatJIDOf(h)) = {}
        /\ RowsOfMessage(h) = {}

\* ---- the name of a chat row
\* C31 (as claimed): with no failure of any collaborator, a chat row that
\* holds a non-empty name keeps that name in every step, also when two
\* handlers of the same chat run concurrently.
C31_NameStable ==
    [][faults' = 0
         => \A r \in chats : \A r2 \in chats' :
              (r.name # EmptyStr /\ r2.jid = r.jid) => r2.name = r.name]_vars

=============================================================================
